---- MODULE Spec2Model ----
(***************************************************************************)
(* Model of the ArchMC stats dashboard backend (src/app.py): the in-memory *)
(* TTL cache, the upstream fetch helper, the player-data transformer and   *)
(* the request handlers.  Handlers are coroutines on one event loop: the   *)
(* code between two awaits runs atomically, so each handler is two steps,  *)
(* one up to the await of the upstream call and one from its resumption.   *)
(***************************************************************************)
EXTENDS Integers, Sequences, FiniteSets, Bags, TLC

VARIABLES
    now,        \* the clock read by datetime.utcnow(), in seconds
    cache,      \* the cache dict: key -> [data, expires]
    inflight,   \* bag of the handlers suspended at their upstream await
    obs,        \* what the last step did (calls made, response sent)
    written,    \* key -> value, time and upstream call of the last set_cache on it
    input,      \* argument of the pure function under check
    output      \* its result

vars == <<now, cache, inflight, obs, written, input, output>>

(***************************************************************************)
(* Bounds of the model.                                                    *)
(***************************************************************************)
MaxInFlight == 2
MaxTime == 120

(***************************************************************************)
(* JSON values as Python holds them after resp.json(): None, bool, int,    *)
(* str, list, dict.  One record shape for all of them.                     *)
(***************************************************************************)
NoFields == [k \in {} |-> 0]

Json(tag, b, n, s, items, fields) ==
    [tag |-> tag, b |-> b, n |-> n, s |-> s, items |-> items, fields |-> fields]

JNull == Json("null", FALSE, 0, "", <<>>, NoFields)
JBool(b) == Json("bool", b, 0, "", <<>>, NoFields)
JNum(n) == Json("num", FALSE, n, "", <<>>, NoFields)
JStr(s) == Json("str", FALSE, 0, s, <<>>, NoFields)
JArr(items) == Json("arr", FALSE, 0, "", items, NoFields)
JObj(fields) == Json("obj", FALSE, 0, "", <<>>, fields)

\* Python truth value of a JSON value (the test made by `if cached:`).
Truthy(v) ==
    CASE v.tag = "null" -> FALSE
      [] v.tag = "bool" -> v.b
      [] v.tag = "num" -> v.n # 0
      [] v.tag = "str" -> v.s # ""
      [] v.tag = "arr" -> Len(v.items) > 0
      [] v.tag = "obj" -> DOMAIN v.fields # {}

\* Optional str arguments of the handlers: Python None or a str.
None == JNull
Some(s) == JStr(s)

\* str() / repr() of a value, as an f-string formats it.
RECURSIVE PyRepr(_)
RECURSIVE JoinItems(_)
RECURSIVE JoinFields(_, _)
JoinItems(items) ==
    IF Len(items) = 0 THEN ""
    ELSE IF Len(items) = 1 THEN PyRepr(items[1])
    ELSE PyRepr(items[1]) \o ", " \o JoinItems(Tail(items))

JoinFields(fields, keys) ==
    IF keys = {} THEN ""
    ELSE LET k == CHOOSE x \in keys : TRUE
             one == "'" \o k \o "': " \o PyRepr(fields[k])
         IN IF keys = {k} THEN one ELSE one \o ", " \o JoinFields(fields, keys \ {k})

PyRepr(v) ==
    CASE v.tag = "null" -> "None"
      [] v.tag = "bool" -> IF v.b THEN "True" ELSE "False"
      [] v.tag = "num" -> ToString(v.n)
      [] v.tag = "str" -> "'" \o v.s \o "'"
      [] v.tag = "arr" -> "[" \o JoinItems(v.items) \o "]"
      [] v.tag = "obj" -> "{" \o JoinFields(v.fields, DOMAIN v.fields) \o "}"

PyStr(v) == IF v.tag = "str" THEN v.s ELSE PyRepr(v)

(***************************************************************************)
(* Simple in-memory cache.                                                 *)
(***************************************************************************)
CACHE_TTL == 120

\* Faulty variants of the cache operations, used to test that the properties
\* below depend on them.
get_cached_inclusive(c, key, t) ==
    IF key \in DOMAIN c /\ t <= c[key].expires THEN c[key].data ELSE JNull

get_cached_ignore_expiry(c, key, t) ==
    IF key \in DOMAIN c THEN c[key].data ELSE JNull

set_cache_keep_first(c, key, data, t) ==
    [k \in DOMAIN c \cup {key} |->
        IF k \in DOMAIN c THEN c[k] ELSE [data |-> data, expires |-> t + 120]]

set_cache_extend(c, key, data, t) ==
    [k \in DOMAIN c \cup {key} |->
        IF k = key
        THEN [data |-> data,
              expires |-> (IF key \in DOMAIN c /\ c[key].expires > t
                           THEN c[key].expires ELSE t) + 120]
        ELSE c[k]]

\* set_cache that also drops the entries that have expired.
set_cache_evict_expired(c, key, data, t) ==
    [k \in {x \in DOMAIN c : t < c[x].expires} \cup {key} |->
        IF k = key THEN [data |-> data, expires |-> t + CACHE_TTL] ELSE c[k]]

get_cached(c, key, t) ==
    IF key \in DOMAIN c /\ t < c[key].expires THEN c[key].data ELSE JNull

set_cache(c, key, data, t) ==
    [k \in DOMAIN c \cup {key} |->
        IF k = key THEN [data |-> data, expires |-> t + CACHE_TTL] ELSE c[k]]

(***************************************************************************)
(* Process player data.                                                    *)
(***************************************************************************)
WinsKey == "wins:global:casual:lifetime"
EloKey == "elo:nodebuff:ranked:lifetime"
Sentinel == "No highlights available"

\* Faulty variants of the two rules of process_player_data: the value's truth
\* decides instead of the key's presence; empty maps are dropped.
Highlights_truthy(data) ==
    (IF WinsKey \in DOMAIN data.fields /\ Truthy(data.fields[WinsKey])
        THEN <<"Wins: " \o PyStr(data.fields[WinsKey])>> ELSE <<>>)
    \o
    (IF EloKey \in DOMAIN data.fields /\ Truthy(data.fields[EloKey])
        THEN <<"ELO: " \o PyStr(data.fields[EloKey])>> ELSE <<>>)

Modes_nonempty(data) ==
    [k \in {x \in DOMAIN data.fields : Truthy(data.fields[x])
                                        /\ data.fields[x].tag = "obj"} |-> data.fields[k]]

Highlights(data) ==
    (IF WinsKey \in DOMAIN data.fields
        THEN <<"Wins: " \o PyStr(data.fields[WinsKey])>> ELSE <<>>)
    \o
    (IF EloKey \in DOMAIN data.fields
        THEN <<"ELO: " \o PyStr(data.fields[EloKey])>> ELSE <<>>)

Modes(data) ==
    [k \in {x \in DOMAIN data.fields : data.fields[x].tag = "obj"} |-> data.fields[k]]

StrList(q) == JArr([i \in 1..Len(q) |-> JStr(q[i])])

\* Only a dict supports both `in` with a str key and .items(); every other
\* JSON value makes the function raise.
ProcessRaises(data) == data.tag # "obj"

\* Faulty variant of process_player_data: the raw payload is passed through.
process_player_data_raw(username, data) == data

process_player_data(username, data) ==
    LET highlights == Highlights(data)
        shown == IF Len(highlights) > 0 THEN highlights ELSE <<Sentinel>>
    IN JObj([k \in {"username", "highlights", "modes"} |->
            CASE k = "username" -> JStr(username)
              [] k = "highlights" -> StrList(shown)
              [] k = "modes" -> JObj(Modes(data))])

(***************************************************************************)
(* Upstream responses and the responses the dashboard sends.               *)
(***************************************************************************)
WinsText == "{\"wins:global:casual:lifetime\": 42}"

\* resp.json(): the parse of the body texts the model's upstream can send.
\* ok = FALSE is a body that is not JSON (json() raises).
ParseJson(text) ==
    CASE text = "{}" -> [ok |-> TRUE, v |-> JObj(NoFields)]
      [] text = "[]" -> [ok |-> TRUE, v |-> JArr(<<>>)]
      [] text = "null" -> [ok |-> TRUE, v |-> JNull]
      [] text = "0" -> [ok |-> TRUE, v |-> JNum(0)]
      [] text = "7" -> [ok |-> TRUE, v |-> JNum(7)]
      [] text = "false" -> [ok |-> TRUE, v |-> JBool(FALSE)]
      [] text = "true" -> [ok |-> TRUE, v |-> JBool(TRUE)]
      [] text = "[7]" -> [ok |-> TRUE, v |-> JArr(<<JNum(7)>>)]
      [] text = WinsText -> [ok |-> TRUE, v |-> JObj([k \in {WinsKey} |-> JNum(42)])]
      [] OTHER -> [ok |-> FALSE, v |-> JNull]

HttpResponse(status, text) == [kind |-> "http", status |-> status, text |-> text]
TransportFailure == [kind |-> "transport", status |-> 0, text |-> ""]
NoResponse == [kind |-> "none", status |-> 0, text |-> ""]

\* The upstream answers the cache-centred specification draws from.
UpstreamResponses ==
    {HttpResponse(200, "{}"), HttpResponse(200, WinsText), HttpResponse(404, "Not Found")}

NoResp == [kind |-> "none", status |-> 0, body |-> JNull, detail |-> ""]
JsonResp(v) == [kind |-> "json", status |-> 200, body |-> v, detail |-> ""]
HTTPException(status, detail) ==
    [kind |-> "error", status |-> status, body |-> JNull, detail |-> detail]
\* An exception that is not an HTTPException leaves the handler: the
\* framework answers 500.
ServerError ==
    [kind |-> "crash", status |-> 500, body |-> JNull, detail |-> "Internal Server Error"]

\* Result of `await fetch_from_arch(...)` once the upstream has answered u.
fetch_from_arch(u) ==
    IF u.kind = "transport"
    THEN [raised |-> TRUE, resp |-> ServerError, value |-> JNull]
    ELSE IF u.status # 200
    THEN [raised |-> TRUE, resp |-> HTTPException(u.status, u.text), value |-> JNull]
    ELSE IF ~ParseJson(u.text).ok
    THEN [raised |-> TRUE, resp |-> ServerError, value |-> JNull]
    ELSE [raised |-> FALSE, resp |-> NoResp, value |-> ParseJson(u.text).v]

(***************************************************************************)
(* Requests in flight.                                                     *)
(***************************************************************************)
Usernames == {"bob"}
Filters == {None}
EconomyUsernames == {Some("bob")}
Currencies == {"gold"}
PageSizes == {<<0, 10>>}
SearchArgs == {<<None, None>>, <<Some(""), Some("")>>, <<Some("n"), None>>,
               <<Some("n"), Some("d")>>, <<None, Some("d")>>, <<Some(""), Some("d")>>}
StatisticIds == {"elo"}

\* An upstream call: GET API_BASE + path with query parameters params.
Call(path, params) == [path |-> path, params |-> params]
NoCall == Call("", JNull)

\* A handler suspended at `await fetch_from_arch(..)`: the locals it uses
\* after the await (its cache key, "" for an uncached handler, and for
\* player_stats the username) and the call it has outstanding.
Frame(ep, username, key, call) ==
    [ep |-> ep, username |-> username, key |-> key, call |-> call]

\* The username a suspended handler still needs: player_stats passes it to
\* process_player_data.
KeptUsername(ep, args) == IF ep = "player_stats" THEN args[1].s ELSE ""

\* What the last step did: the handler and (at its start) its arguments, its
\* cache key, the calls it made in order, the value get_cached gave it, the
\* upstream call it issued, the upstream answer it consumed, the response it sent, and what
\* its set_cache found under the key: "new" (no entry), "expired" or "live"
\* (an unexpired entry); "" without a set_cache.
Obs(ep, args, key, ops, got, call, u, resp, over) ==
    [ep |-> ep, args |-> args, key |-> key, ops |-> ops, got |-> got,
     call |-> call, u |-> u, resp |-> resp, over |-> over]
NoObs == Obs("", <<>>, "", <<>>, JNull, NoCall, NoResponse, NoResp, "")

Init ==
    /\ now = 0
    /\ cache = [k \in {} |-> 0]
    /\ inflight = EmptyBag
    /\ obs = NoObs
    /\ written = [k \in {} |-> 0]
    /\ input = JNull
    /\ output = JNull

\* Faulty variant of CachedStart: a miss issues no call while a call for the
\* same key is outstanding (single-flight).
CachedStart_single_flight(ep, args, key, path, params) ==
    LET cached == get_cached(cache, key, now)
    IN /\ BagCardinality(inflight) < MaxInFlight
       /\ IF Truthy(cached)
          THEN /\ obs' = Obs(ep, args, key, <<"get_cached", "return">>, cached,
                             NoCall, NoResponse, JsonResp(cached), "")
               /\ UNCHANGED inflight
          ELSE IF \E fr \in BagToSet(inflight) : fr.key = key
          THEN /\ obs' = Obs(ep, args, key, <<"get_cached", "join">>, cached,
                             NoCall, NoResponse, NoResp, "")
               /\ UNCHANGED inflight
          ELSE /\ obs' = Obs(ep, args, key, <<"get_cached", "fetch_from_arch">>, cached,
                             Call(path, params), NoResponse, NoResp, "")
               /\ inflight' = inflight (+) SetToBag({Frame(ep, KeptUsername(ep, args), key, Call(path, params))})
       /\ UNCHANGED <<now, cache, written, input, output>>

\* A cached handler up to its first await: cache check, then either the
\* cached value is returned or the upstream call is issued.
\* Faulty variant of CachedStart with a sliding TTL: a hit re-dates the entry.
CachedStart_sliding(ep, args, key, path, params) ==
    LET cached == get_cached(cache, key, now)
    IN /\ BagCardinality(inflight) < MaxInFlight
       /\ IF Truthy(cached)
          THEN /\ obs' = Obs(ep, args, key, <<"get_cached", "return">>, cached,
                             NoCall, NoResponse, JsonResp(cached), "")
               /\ cache' = set_cache(cache, key, cached, now)
               /\ UNCHANGED inflight
          ELSE /\ obs' = Obs(ep, args, key, <<"get_cached", "fetch_from_arch">>, cached,
                             Call(path, params), NoResponse, NoResp, "")
               /\ inflight' = inflight (+) SetToBag({Frame(ep, KeptUsername(ep, args), key, Call(path, params))})
               /\ UNCHANGED cache
       /\ UNCHANGED <<now, written, input, output>>

\* Faulty variant of CachedStart: the upstream call is issued whatever the
\* cache check found.
CachedStart_always_fetch(ep, args, key, path, params) ==
    LET cached == get_cached(cache, key, now)
    IN /\ BagCardinality(inflight) < MaxInFlight
       /\ obs' = Obs(ep, args, key, <<"get_cached", "fetch_from_arch">>, cached,
                     Call(path, params), NoResponse, NoResp, "")
       /\ inflight' = inflight (+) SetToBag({Frame(ep, KeptUsername(ep, args), key, Call(path, params))})
       /\ UNCHANGED <<now, cache, written, input, output>>

CachedStart(ep, args, key, path, params) ==
    LET cached == get_cached(cache, key, now)
    IN /\ BagCardinality(inflight) < MaxInFlight
       /\ IF Truthy(cached)
          THEN /\ obs' = Obs(ep, args, key, <<"get_cached", "return">>, cached,
                             NoCall, NoResponse, JsonResp(cached), "")
               /\ UNCHANGED inflight
          ELSE /\ obs' = Obs(ep, args, key, <<"get_cached", "fetch_from_arch">>, cached,
                             Call(path, params), NoResponse, NoResp, "")
               /\ inflight' = inflight (+) SetToBag({Frame(ep, KeptUsername(ep, args), key, Call(path, params))})
       /\ UNCHANGED <<now, cache, written, input, output>>

\* An uncached handler up to its await: the upstream call is issued.
UncachedStart(ep, args, path, params) ==
    /\ BagCardinality(inflight) < MaxInFlight
    /\ obs' = Obs(ep, args, "", <<"fetch_from_arch">>, JNull,
                  Call(path, params), NoResponse, NoResp, "")
    /\ inflight' = inflight (+) SetToBag({Frame(ep, "", "", Call(path, params))})
    /\ UNCHANGED <<now, cache, written, input, output>>

\* The handler ends, by return or by an exception.
Finish(fr, ops, u, resp, over) ==
    /\ obs' = Obs(fr.ep, <<>>, fr.key, ops, JNull, NoCall, u, resp, over)
    /\ inflight' = inflight (-) SetToBag({fr})
    /\ UNCHANGED <<now, input, output>>

\* set_cache(key, data); return data
StoreAndReturn(fr, ops, u, data) ==
    /\ cache' = set_cache(cache, fr.key, data, now)
    /\ written' = [k \in DOMAIN written \cup {fr.key} |->
                      IF k = fr.key THEN [data |-> data, at |-> now, call |-> fr.call]
                      ELSE written[k]]
    /\ Finish(fr, ops \o <<"set_cache", "return">>, u, JsonResp(data),
              IF fr.key \notin DOMAIN cache THEN "new"
              ELSE IF now < cache[fr.key].expires THEN "live" ELSE "expired")

\* Faulty variant of CachedResume: a failed upstream call is tried again.
CachedResume_retry(fr, ep, u) ==
    LET f == fetch_from_arch(u)
    IN /\ BagIn(fr, inflight)
       /\ fr.ep = ep
       /\ IF f.raised
          THEN /\ obs' = Obs(fr.ep, <<>>, fr.key, <<"fetch_from_arch">>, JNull,
                             fr.call, u, NoResp, "")
               /\ UNCHANGED <<now, cache, inflight, written, input, output>>
          ELSE StoreAndReturn(fr, <<>>, u, f.value)

\* A handler of the form `data = await fetch_from_arch(..); set_cache(key,
\* data); return data`, from the resumption of its await.
CachedResume(fr, ep, u) ==
    LET f == fetch_from_arch(u)
    IN /\ BagIn(fr, inflight)
       /\ fr.ep = ep
       /\ IF f.raised
          THEN Finish(fr, <<"raise">>, u, f.resp, "") /\ UNCHANGED <<cache, written>>
          ELSE StoreAndReturn(fr, <<>>, u, f.value)

\* Faulty variant of UncachedResume: the result is stored in the cache under
\* the path of the call.
UncachedResume_caching(fr, ep, u) ==
    LET f == fetch_from_arch(u)
    IN /\ BagIn(fr, inflight)
       /\ fr.ep = ep
       /\ UNCHANGED written
       /\ IF f.raised
          THEN Finish(fr, <<"raise">>, u, f.resp, "") /\ UNCHANGED cache
          ELSE /\ cache' = set_cache(cache, fr.call.path, f.value, now)
               /\ Finish(fr, <<"return">>, u, JsonResp(f.value), "")

\* `return await fetch_from_arch(..)`, from the resumption of its await.
UncachedResume(fr, ep, u) ==
    LET f == fetch_from_arch(u)
    IN /\ BagIn(fr, inflight)
       /\ fr.ep = ep
       /\ UNCHANGED <<cache, written>>
       /\ IF f.raised
          THEN Finish(fr, <<"raise">>, u, f.resp, "")
          ELSE Finish(fr, <<"return">>, u, JsonResp(f.value), "")

(***************************************************************************)
(* API endpoints.  Each handler is its part up to the await (named as the  *)
(* handler) and its part from the resumption (_resume).                    *)
(***************************************************************************)
player_stats(username, filter) ==
    CachedStart("player_stats", <<JStr(username), filter>>,
        "player:" \o username \o ":" \o PyStr(filter),
        "/players/username/" \o username \o "/statistics",
        IF Truthy(filter) THEN JObj([k \in {"filter"} |-> filter]) ELSE JNull)

\* Faulty variant of player_stats_resume: a failed upstream call is
\* remembered in the cache before the error is raised.
player_stats_resume_cache_error(fr, u) ==
    LET f == fetch_from_arch(u)
    IN /\ BagIn(fr, inflight)
       /\ fr.ep = "player_stats"
       /\ IF f.raised
          THEN /\ Finish(fr, <<"raise">>, u, f.resp, "")
               /\ cache' = set_cache(cache, fr.key, JNull, now)
               /\ UNCHANGED written
          ELSE IF ProcessRaises(f.value)
          THEN Finish(fr, <<"process_player_data", "raise">>, u, ServerError, "")
               /\ UNCHANGED <<cache, written>>
          ELSE StoreAndReturn(fr, <<"process_player_data">>, u,
                              process_player_data(fr.username, f.value))

player_stats_resume(fr, u) ==
    LET f == fetch_from_arch(u)
    IN /\ BagIn(fr, inflight)
       /\ fr.ep = "player_stats"
       /\ IF f.raised
          THEN Finish(fr, <<"raise">>, u, f.resp, "") /\ UNCHANGED <<cache, written>>
          ELSE IF ProcessRaises(f.value)
          THEN Finish(fr, <<"process_player_data", "raise">>, u, ServerError, "")
               /\ UNCHANGED <<cache, written>>
          ELSE StoreAndReturn(fr, <<"process_player_data">>, u,
                              process_player_data(fr.username, f.value))

economy(username) ==
    CachedStart("economy", <<username>>,
        "economy:" \o (IF Truthy(username) THEN PyStr(username) ELSE "baltop"),
        IF Truthy(username)
            THEN "/economy/player/username/" \o PyStr(username)
            ELSE "/economy/baltop",
        JNull)

economy_resume(fr, u) == CachedResume(fr, "economy", u)

baltop_currency(currency) ==
    CachedStart("baltop_currency", <<JStr(currency)>>, "baltop:" \o currency,
        "/economy/baltop/" \o currency, JNull)

baltop_currency_resume(fr, u) == CachedResume(fr, "baltop_currency", u)

PageParams(page, size) ==
    JObj([k \in {"page", "size"} |-> IF k = "page" THEN JNum(page) ELSE JNum(size)])

guild_list(page, size) ==
    CachedStart("guild_list", <<JNum(page), JNum(size)>>,
        "guilds:list:" \o ToString(page) \o ":" \o ToString(size),
        "/guilds", PageParams(page, size))

guild_list_resume(fr, u) == CachedResume(fr, "guild_list", u)

\* Faulty variant of guild_search: description is looked at before name.
guild_search_description_first(name, description) ==
    IF Truthy(description)
    THEN UncachedStart("guild_search", <<name, description>>,
                       "/guilds/search/description", JObj([k \in {"q"} |-> description]))
    ELSE IF Truthy(name)
    THEN UncachedStart("guild_search", <<name, description>>,
                       "/guilds/search/name", JObj([k \in {"q"} |-> name]))
    ELSE /\ BagCardinality(inflight) < MaxInFlight
         /\ obs' = Obs("guild_search", <<name, description>>, "", <<"raise">>, JNull,
                       NoCall, NoResponse,
                       HTTPException(400, "Provide either name or description"), "")
         /\ UNCHANGED <<now, cache, inflight, written, input, output>>

guild_search(name, description) ==
    IF Truthy(name)
    THEN UncachedStart("guild_search", <<name, description>>,
                       "/guilds/search/name", JObj([k \in {"q"} |-> name]))
    ELSE IF Truthy(description)
    THEN UncachedStart("guild_search", <<name, description>>,
                       "/guilds/search/description", JObj([k \in {"q"} |-> description]))
    ELSE /\ BagCardinality(inflight) < MaxInFlight
         /\ obs' = Obs("guild_search", <<name, description>>, "", <<"raise">>, JNull,
                       NoCall, NoResponse,
                       HTTPException(400, "Provide either name or description"), "")
         /\ UNCHANGED <<now, cache, inflight, written, input, output>>

guild_search_resume(fr, u) == UncachedResume(fr, "guild_search", u)

guild_by_player(username) ==
    UncachedStart("guild_by_player", <<JStr(username)>>,
                  "/guilds/player/username/" \o username, JNull)

guild_by_player_resume(fr, u) == UncachedResume(fr, "guild_by_player", u)

leaderboards(statisticId, page, size) ==
    UncachedStart("leaderboards", <<JStr(statisticId), JNum(page), JNum(size)>>,
                  "/leaderboards/" \o statisticId, PageParams(page, size))

leaderboards_resume(fr, u) == UncachedResume(fr, "leaderboards", u)

statistics == UncachedStart("statistics", <<>>, "/statistics", JNull)

statistics_resume(fr, u) == UncachedResume(fr, "statistics", u)

(***************************************************************************)
(* The clock read by datetime.utcnow().                                    *)
(***************************************************************************)
TickSteps == {CACHE_TTL \div 2, CACHE_TTL}

Tick(d) ==
    /\ now + d <= MaxTime
    /\ now' = now + d
    /\ obs' = NoObs
    /\ UNCHANGED <<cache, inflight, written, input, output>>

(***************************************************************************)
(* Spec: the four cached endpoints, concurrent requests and the clock.     *)
(***************************************************************************)
Suspended == BagToSet(inflight)

Next ==
    \/ \E username \in Usernames, filter \in Filters : player_stats(username, filter)
    \/ \E fr \in Suspended, u \in UpstreamResponses : player_stats_resume(fr, u)
    \/ \E username \in EconomyUsernames : economy(username)
    \/ \E fr \in Suspended, u \in UpstreamResponses : economy_resume(fr, u)
    \/ \E currency \in Currencies : baltop_currency(currency)
    \/ \E fr \in Suspended, u \in UpstreamResponses : baltop_currency_resume(fr, u)
    \/ \E ps \in PageSizes : guild_list(ps[1], ps[2])
    \/ \E fr \in Suspended, u \in UpstreamResponses : guild_list_resume(fr, u)
    \/ \E d \in TickSteps : Tick(d)

Spec == Init /\ [][Next]_vars

(***************************************************************************)
(* SpecKeys: the player and economy endpoints on arguments whose cache     *)
(* keys f"player:{username}:{filter}" and f"economy:{username or           *)
(* 'baltop'}" coincide: an absent filter and the filter "None", a ':' in   *)
(* the username or in the filter, an absent or empty username and the      *)
(* username "baltop"; at one clock value.                                  *)
(***************************************************************************)
KeyPlayerArgs ==
    {<<"a", None>>, <<"a", Some("None")>>, <<"a", Some("b:c")>>, <<"a:b", Some("c")>>}
KeyEconomyUsernames == {None, Some(""), Some("bob"), Some("baltop")}
KeyResponses == {HttpResponse(200, WinsText), HttpResponse(404, "Not Found")}

NextKeys ==
    \/ \E a \in KeyPlayerArgs : player_stats(a[1], a[2])
    \/ \E fr \in Suspended, u \in KeyResponses : player_stats_resume(fr, u)
    \/ \E username \in KeyEconomyUsernames : economy(username)
    \/ \E fr \in Suspended, u \in KeyResponses : economy_resume(fr, u)

SpecKeys == Init /\ [][NextKeys]_vars

(***************************************************************************)
(* SpecApi: all eight endpoints and every kind of upstream answer (200     *)
(* with and without a JSON body, a 2xx other than 200, an error status, a  *)
(* transport failure), at one clock value.                                 *)
(***************************************************************************)
ApiResponses ==
    {HttpResponse(200, WinsText), HttpResponse(200, "Not Found"),
     HttpResponse(201, WinsText), HttpResponse(404, "Not Found"), TransportFailure}

NextApi ==
    \/ \E username \in Usernames, filter \in Filters : player_stats(username, filter)
    \/ \E fr \in Suspended, u \in ApiResponses : player_stats_resume(fr, u)
    \/ \E username \in EconomyUsernames : economy(username)
    \/ \E fr \in Suspended, u \in ApiResponses : economy_resume(fr, u)
    \/ \E currency \in Currencies : baltop_currency(currency)
    \/ \E fr \in Suspended, u \in ApiResponses : baltop_currency_resume(fr, u)
    \/ \E ps \in PageSizes : guild_list(ps[1], ps[2])
    \/ \E fr \in Suspended, u \in ApiResponses : guild_list_resume(fr, u)
    \/ \E a \in SearchArgs : guild_search(a[1], a[2])
    \/ \E fr \in Suspended, u \in ApiResponses : guild_search_resume(fr, u)
    \/ \E username \in Usernames : guild_by_player(username)
    \/ \E fr \in Suspended, u \in ApiResponses : guild_by_player_resume(fr, u)
    \/ \E s \in StatisticIds, ps \in PageSizes : leaderboards(s, ps[1], ps[2])
    \/ \E fr \in Suspended, u \in ApiResponses : leaderboards_resume(fr, u)
    \/ statistics
    \/ \E fr \in Suspended, u \in ApiResponses : statistics_resume(fr, u)

SpecApi == Init /\ [][NextApi]_vars

(***************************************************************************)
(* SpecTransform: process_player_data applied to every payload over a few  *)
(* keys and values.                                                        *)
(***************************************************************************)
PayloadKeys == {WinsKey, EloKey, "a", "b"}
PayloadValues ==
    {JNum(0), JNum(42), JNull, JStr(""), JObj(NoFields), JObj([k \in {"x"} |-> JNum(1)])}
Payloads == UNION {[S -> PayloadValues] : S \in SUBSET PayloadKeys}
TransformUsernames == {"bob", ""}

InitTransform ==
    /\ now = 0
    /\ cache = [k \in {} |-> 0]
    /\ inflight = EmptyBag
    /\ obs = NoObs
    /\ written = [k \in {} |-> 0]
    /\ input \in {[username |-> n, data |-> JObj(f)] : n \in TransformUsernames, f \in Payloads}
    /\ output = JNull

Transform ==
    /\ output = JNull
    /\ output' = process_player_data(input.username, input.data)
    /\ UNCHANGED <<now, cache, inflight, obs, written, input>>

NextTransform == Transform

SpecTransform == InitTransform /\ [][NextTransform]_vars

(***************************************************************************)
(* Properties of the cache and the cached endpoints, under Spec.           *)
(***************************************************************************)
\* The last step was a cached handler's cache check (its first part).
CacheCheck == obs.ops # <<>> /\ obs.ops[1] = "get_cached"

\* The last step wrote the cache.
Wrote == obs.over # ""

\* C1: get_cached never returns the data of an entry whose stored expiry is
\* not strictly later than the current time: it gives a value only while
\* now < expires, and gives None for an expired entry that is still in the
\* map.
C1_ExpiredNeverReturned ==
    CacheCheck =>
        /\ obs.got # JNull =>
              obs.key \in DOMAIN cache /\ now < cache[obs.key].expires
        /\ (obs.key \in DOMAIN cache /\ ~(now < cache[obs.key].expires)) =>
              obs.got = JNull /\ obs.resp = NoResp

\* A cache check at exactly the stored expiry of a lingering entry with real
\* data reported the key absent.
C1_Witness ==
    /\ CacheCheck
    /\ obs.key \in DOMAIN cache
    /\ now = cache[obs.key].expires
    /\ Truthy(cache[obs.key].data)
    /\ obs.got = JNull

\* C2: a get_cached(key) after set_cache(key, v), with no later set_cache on
\* the key, gives exactly v while the TTL has not elapsed (whatever was set
\* on other keys meanwhile, and also for empty values), and absent once it
\* has.
C2_GetAfterSet ==
    (CacheCheck /\ obs.key \in DOMAIN written) =>
        IF now < written[obs.key].at + CACHE_TTL
        THEN obs.got = written[obs.key].data
        ELSE obs.got = JNull

\* An empty (falsy) value was read back within its TTL after a later
\* set_cache on another key.
C2_Witness ==
    /\ CacheCheck
    /\ obs.key \in DOMAIN written
    /\ now < written[obs.key].at + CACHE_TTL
    /\ obs.got = written[obs.key].data
    /\ obs.got # JNull
    /\ ~Truthy(obs.got)
    /\ \E k \in DOMAIN written : k # obs.key /\ written[k].at > written[obs.key].at

\* C3: once a request has stored its result under a key, every later request
\* for the key within the TTL returns that cached value and makes no upstream
\* call, for every JSON value the upstream can return.
C3_IdempotentWithinTTL ==
    (CacheCheck /\ obs.key \in DOMAIN written
        /\ now < written[obs.key].at + CACHE_TTL) =>
        /\ obs.resp = JsonResp(written[obs.key].data)
        /\ obs.ops = <<"get_cached", "return">>

\* C4: set_cache(key, v) replaces the entry of key by v with expiry (time of
\* the call + TTL) and leaves the other keys alone: the cache always holds,
\* for every key ever written, the value and call time of the last write to
\* it, and right after a write that is the value the writing request returns.
C4_LastWriteWins ==
    /\ DOMAIN cache = DOMAIN written
    /\ \A k \in DOMAIN cache :
          cache[k] = [data |-> written[k].data, expires |-> written[k].at + CACHE_TTL]
    /\ Wrote => /\ obs.key \in DOMAIN cache
                /\ cache[obs.key] = [data |-> obs.resp.body, expires |-> now + CACHE_TTL]

\* Two requests for one player key both missed and both wrote: the second
\* write replaced the first one's unexpired entry, with other keys present.
C4_Witness ==
    /\ Wrote
    /\ obs.ep = "player_stats"
    /\ obs.over = "live"
    /\ cache[obs.key].data = obs.resp.body
    /\ \E k \in DOMAIN cache : k # obs.key

\* C5: there is no single-flight guard: every cache miss issues an upstream
\* call of its own, whether or not a call for the same key is outstanding.
C5_MissAlwaysCalls ==
    (CacheCheck /\ ~Truthy(obs.got)) =>
        /\ obs.ops = <<"get_cached", "fetch_from_arch">>
        /\ \E fr \in BagToSet(inflight) : fr.key = obs.key /\ fr.ep = obs.ep

\* Two requests for the same key have both missed and both have an upstream
\* call outstanding.
C5_Witness ==
    /\ CacheCheck
    /\ \E fr \in BagToSet(inflight) :
          fr.key = obs.key /\ fr.key # "" /\ CopiesIn(fr, inflight) >= 2

\* C10: every cache entry expires exactly 120 seconds after the clock value
\* at which it was written, whichever cached endpoint wrote it.
C10_ExpiryIsWritePlus120 ==
    \A k \in DOMAIN cache :
        k \in DOMAIN written /\ cache[k].expires = written[k].at + 120

\* All four cached endpoints have written an entry, one of them after the
\* clock had advanced and over an earlier entry.
C10_Witness ==
    /\ Cardinality(DOMAIN cache) = 4
    /\ \E k \in DOMAIN cache : written[k].at > 0 /\ obs.key = k /\ obs.over # "new"
    /\ Wrote

(***************************************************************************)
(* Properties of the upstream fetch and of guild_search, under SpecApi.    *)
(***************************************************************************)
\* The last step resumed a handler with an upstream answer.
Resumed == obs.u # NoResponse

\* C6: fetch_from_arch gives the parsed JSON body when the upstream answers
\* with a 2xx status and fails with an upstream error exactly when the status
\* is not 2xx; the caller then gets the upstream's status code and body text.
C6_SuccessIffTwoXX ==
    (Resumed /\ obs.u.kind = "http") =>
        IF obs.u.status \in 200..299
        THEN ParseJson(obs.u.text).ok =>
                /\ obs.resp.kind # "error"
                /\ obs.key = "" => obs.resp = JsonResp(ParseJson(obs.u.text).v)
        ELSE obs.resp = HTTPException(obs.u.status, obs.u.text)

\* The last step was guild_search up to its await or its HTTP 400.
GuildSearchStart == obs.ep = "guild_search" /\ ~Resumed

Blank(x) == x = JNull \/ x = JStr("")

\* C7: guild_search with neither name nor description (absent or empty) fails
\* with HTTP 400 without an upstream call or a cache access; with a name it
\* queries /guilds/search/name with q = name, also when a description is
\* given; with only a description it queries /guilds/search/description.
C7_GuildSearch ==
    GuildSearchStart =>
        LET name == obs.args[1]
            description == obs.args[2]
        IN /\ (Blank(name) /\ Blank(description)) =>
                 /\ obs.resp.kind = "error" /\ obs.resp.status = 400
                 /\ obs.ops = <<"raise">>
                 /\ obs.call = NoCall
           /\ ~Blank(name) =>
                 /\ obs.resp = NoResp
                 /\ obs.ops = <<"fetch_from_arch">>
                 /\ obs.call = Call("/guilds/search/name", JObj([k \in {"q"} |-> name]))
                 /\ BagIn(Frame("guild_search", "", "", obs.call), inflight)
           /\ (Blank(name) /\ ~Blank(description)) =>
                 /\ obs.resp = NoResp
                 /\ obs.ops = <<"fetch_from_arch">>
                 /\ obs.call = Call("/guilds/search/description",
                                    JObj([k \in {"q"} |-> description]))
                 /\ BagIn(Frame("guild_search", "", "", obs.call), inflight)

\* guild_search with both parameters empty was rejected with 400 while the
\* cache held entries and another guild_search had its call outstanding.
C7_Witness ==
    /\ GuildSearchStart
    /\ obs.args = <<JStr(""), JStr("")>>
    /\ obs.resp.status = 400
    /\ DOMAIN cache # {}
    /\ \E fr \in BagToSet(inflight) :
          fr.ep = "guild_search" /\ fr.call.path = "/guilds/search/name"

(***************************************************************************)
(* Properties of process_player_data, under SpecTransform.                 *)
(***************************************************************************)
Transformed == output # JNull

\* The highlights of the view, as a sequence of strings.
Shown ==
    [i \in 1..Len(output.fields["highlights"].items) |->
        output.fields["highlights"].items[i].s]

\* What an f-string makes of the payload values drawn by SpecTransform.
ValueText(v) ==
    CASE v = JNum(0) -> "0"
      [] v = JNum(42) -> "42"
      [] v = JNull -> "None"
      [] v = JStr("") -> ""
      [] v = JObj(NoFields) -> "{}"
      [] v = JObj([k \in {"x"} |-> JNum(1)]) -> "{'x': 1}"

\* C8: the highlights are never empty; they are 'Wins: <v>' if the wins key
\* is present followed by 'ELO: <v>' if the elo key is present, whatever the
\* values; they are the single sentinel exactly when neither key is present,
\* and the sentinel never stands beside a real highlight.
C8_Highlights ==
    Transformed =>
        LET d == input.data.fields
            wins == "wins:global:casual:lifetime" \in DOMAIN d
            elo == "elo:nodebuff:ranked:lifetime" \in DOMAIN d
        IN /\ Len(Shown) >= 1
           /\ IF wins \/ elo
              THEN Shown =
                     (IF wins THEN <<"Wins: " \o ValueText(d["wins:global:casual:lifetime"])>>
                              ELSE <<>>)
                     \o
                     (IF elo THEN <<"ELO: " \o ValueText(d["elo:nodebuff:ranked:lifetime"])>>
                             ELSE <<>>)
              ELSE Shown = <<"No highlights available">>
           /\ (Shown = <<"No highlights available">>) <=> (~wins /\ ~elo)
           /\ (\E i \in 1..Len(Shown) : Shown[i] = "No highlights available")
                 => Len(Shown) = 1

\* Both keys present with the values 0 and null: both highlights, in order.
C8_Witness ==
    /\ Transformed
    /\ DOMAIN input.data.fields = {WinsKey, EloKey, "a"}
    /\ input.data.fields[WinsKey] = JNum(0)
    /\ input.data.fields[EloKey] = JNull
    /\ Shown = <<"Wins: 0", "ELO: None">>

\* C9: the keys of modes are exactly the payload keys whose value is a map,
\* each with its nested value unchanged; the username is the argument.
C9_Modes ==
    Transformed =>
        LET d == input.data.fields
            m == output.fields["modes"]
        IN /\ m.tag = "obj"
           /\ DOMAIN m.fields = {k \in DOMAIN d : d[k].tag = "obj"}
           /\ \A k \in DOMAIN m.fields : m.fields[k] = d[k]
           /\ output.fields["username"] = JStr(input.username)

\* A payload with a number, a map and an empty map: the two maps are the
\* modes and the number is dropped.
C9_Witness ==
    /\ Transformed
    /\ DOMAIN input.data.fields = {"a", "b", WinsKey}
    /\ input.data.fields["a"] = JNum(42)
    /\ input.data.fields["b"] = JObj([k \in {"x"} |-> JNum(1)])
    /\ input.data.fields[WinsKey] = JObj(NoFields)
    /\ DOMAIN output.fields["modes"].fields = {"b", WinsKey}
    /\ output.fields["modes"].fields["b"] = JObj([k \in {"x"} |-> JNum(1)])

(***************************************************************************)
(* Properties of the uncached endpoints and of the upstream attempts,      *)
(* under SpecApi.                                                          *)
(***************************************************************************)
UncachedEps == {"guild_search", "guild_by_player", "leaderboards", "statistics"}

\* C11: the uncached endpoints never read or write the cache: no step of
\* theirs changes the cache map or calls get_cached or set_cache, and every
\* request of theirs that passes validation issues an upstream call of its
\* own.
C11_UncachedLeaveCache ==
    [][obs'.ep \in UncachedEps =>
          /\ cache' = cache
          /\ \A i \in 1..Len(obs'.ops) : obs'.ops[i] \notin {"get_cached", "set_cache"}
          /\ (~Resumed' /\ obs'.resp.kind # "error") =>
                /\ obs'.ops = <<"fetch_from_arch">>
                /\ obs'.call # NoCall
                /\ inflight' = inflight (+) SetToBag({Frame(obs'.ep, "", "", obs'.call)})
      ]_vars

\* guild_by_player issued its call while an identical call was outstanding
\* and the cache held entries.
C11_Witness ==
    /\ obs.ep = "guild_by_player"
    /\ ~Resumed
    /\ CopiesIn(Frame("guild_by_player", "", "", obs.call), inflight) = 2
    /\ DOMAIN cache # {}

\* The number of upstream calls among the calls of a step.
Attempts(ops) == Cardinality({i \in 1..Len(ops) : ops[i] = "fetch_from_arch"})

\* An upstream answer that is a failure: no answer at all, or a status that
\* is not 2xx.
Failure(u) == u.kind = "transport" \/ (u.kind = "http" /\ u.status \notin 200..299)

\* C12: a request makes at most one upstream attempt: none when its cache
\* check hits or it is rejected with 400, exactly one otherwise, issued
\* before the await; the step that takes the upstream answer issues no call
\* and ends the request, with the error when the answer is a failure.
C12_OneAttempt ==
    [][obs'.ep # "" =>
          /\ Attempts(obs'.ops) <= 1
          /\ ~Resumed' =>
                IF (CacheCheck' /\ Truthy(obs'.got)) \/ obs'.resp.kind = "error"
                THEN /\ Attempts(obs'.ops) = 0
                     /\ obs'.call = NoCall
                     /\ obs'.resp # NoResp
                     /\ inflight' = inflight
                ELSE /\ Attempts(obs'.ops) = 1
                     /\ obs'.call # NoCall
                     /\ obs'.resp = NoResp
                     /\ BagCardinality(inflight') = BagCardinality(inflight) + 1
          /\ Resumed' =>
                /\ Attempts(obs'.ops) = 0
                /\ obs'.call = NoCall
                /\ obs'.resp # NoResp
                /\ BagCardinality(inflight') = BagCardinality(inflight) - 1
                /\ Failure(obs'.u) => obs'.resp.kind \in {"error", "crash"}
                /\ (obs'.u.kind = "http" /\ obs'.u.status \notin 200..299) =>
                      obs'.resp = HTTPException(obs'.u.status, obs'.u.text)
      ]_vars

\* A player_stats request whose upstream call failed in transport ended with
\* a server error, leaving no call outstanding.
C12_Witness ==
    /\ Resumed
    /\ obs.ep = "player_stats"
    /\ obs.u = TransportFailure
    /\ obs.resp = ServerError
    /\ inflight = EmptyBag

\* C13 as stated: no write replaces an entry that is still unexpired.
C13_NoLiveOverwrite == Wrote => obs.over # "live"

\* A key has an entry whose value a cache check would return and use.
LiveTruthy(c, key, t) ==
    key \in DOMAIN c /\ t < c[key].expires /\ Truthy(c[key].data)

\* C13 (amended): every write is made by a request that is in flight, and a
\* request goes in flight only from a cache check that found no usable
\* entry for its key (absent, expired or holding a falsy value); a request
\* whose cache check found an unexpired truthy entry issues no call and
\* writes nothing.  The entry a write replaces may itself be unexpired: it
\* was stored after the writer's cache check, or its value is falsy.
C13_WritesFollowMisses ==
    [][/\ cache' # cache => Wrote'
       /\ Wrote' =>
             /\ Resumed'
             /\ \E fr \in BagToSet(inflight) :
                   /\ fr.key = obs'.key
                   /\ inflight' = inflight (-) SetToBag({fr})
             /\ DOMAIN cache' = DOMAIN cache \cup {obs'.key}
             /\ \A k \in DOMAIN cache : k # obs'.key => cache'[k] = cache[k]
       /\ inflight' # inflight /\ ~Resumed' =>
             /\ CacheCheck'
             /\ ~LiveTruthy(cache, obs'.key, now)
       /\ (CacheCheck' /\ LiveTruthy(cache, obs'.key, now)) =>
             /\ cache' = cache
             /\ inflight' = inflight
             /\ obs'.call = NoCall
             /\ obs'.resp = JsonResp(cache[obs'.key].data)
      ]_vars

\* Two requests missed together at time 0; the second to finish replaced
\* the unexpired entry the first had stored with a truthy value.
C13_Witness ==
    /\ Wrote
    /\ obs.over = "live"
    /\ now = 0
    /\ Truthy(obs.resp.body)
    /\ inflight = EmptyBag

\* A request whose cache check returned a value it answers with.
Hit == CacheCheck /\ Truthy(obs.got)

\* C14: economy fetches /economy/player/username/{username} when a username
\* is given and /economy/baltop when it is omitted or empty, and a cache hit
\* answers with the entry stored by a request of the same kind: per-player
\* data for that player, or baltop data.
C14_EconomyKinds ==
    obs.ep = "economy" =>
        LET username == obs.args[1]
            path == IF username.tag = "str" /\ username.s # ""
                    THEN "/economy/player/username/" \o username.s
                    ELSE "/economy/baltop"
        IN /\ (CacheCheck /\ ~Hit) => obs.call = Call(path, JNull)
           /\ Hit => written[obs.key].call = Call(path, JNull)

CachedEps == {"player_stats", "economy", "baltop_currency", "guild_list"}

\* The JSON value the upstream answered with.
Raw == ParseJson(obs.u.text).v

\* C15: on a cached endpoint a request first checks the cache; it returns
\* at once on a hit, with no upstream call, and otherwise issues one
\* upstream call; when the call has answered, the player endpoint
\* transforms the payload, then the value is written to the cache, then
\* returned.  The value returned on a miss is the value written: the raw
\* upstream JSON, or on the player endpoint the view built from it with its
\* three fields, never the raw payload.
C15_StepOrder ==
    obs.ep \in CachedEps =>
        /\ ~Resumed =>
              /\ CacheCheck
              /\ obs.ops = IF Truthy(obs.got) THEN <<"get_cached", "return">>
                           ELSE <<"get_cached", "fetch_from_arch">>
              /\ Truthy(obs.got) => obs.call = NoCall /\ obs.resp = JsonResp(obs.got)
              /\ ~Truthy(obs.got) => obs.call # NoCall /\ obs.resp = NoResp
              /\ ~Wrote
        /\ Resumed =>
              /\ obs.resp.kind = "json" <=> Wrote
              /\ Wrote =>
                    /\ obs.ops = IF obs.ep = "player_stats"
                                 THEN <<"process_player_data", "set_cache", "return">>
                                 ELSE <<"set_cache", "return">>
                    /\ obs.resp = JsonResp(cache[obs.key].data)
                    /\ cache[obs.key].expires = now + CACHE_TTL
                    /\ IF obs.ep = "player_stats"
                       THEN /\ obs.resp.body.tag = "obj"
                            /\ DOMAIN obs.resp.body.fields = {"username", "highlights", "modes"}
                            /\ \E n \in Usernames :
                                  obs.resp.body = process_player_data(n, Raw)
                            /\ obs.resp.body # Raw
                       ELSE obs.resp.body = Raw
              /\ ~Wrote => \A i \in 1..Len(obs.ops) : obs.ops[i] # "set_cache"

\* A player request that missed has stored and returned the view of an
\* upstream payload with a wins key, with another request still in flight.
C15_Witness ==
    /\ obs.ep = "player_stats"
    /\ Resumed
    /\ Wrote
    /\ obs.u = HttpResponse(200, WinsText)
    /\ obs.resp.body # Raw
    /\ cache[obs.key].data = obs.resp.body
    /\ inflight # EmptyBag

\* C16: entries are never removed: a key of the cache map is a key of it in
\* every later state, over requests and clock advances alike, and an entry,
\* expired or not, stays as it is until a write to its own key replaces it.
C16_KeysOnlyGrow ==
    [][\A k \in DOMAIN cache :
          /\ k \in DOMAIN cache'
          /\ cache'[k] # cache[k] => Wrote' /\ obs'.key = k
      ]_vars

\* A write to one key has left the expired entry of another key in the map.
C16_Witness ==
    /\ Wrote
    /\ \E k \in DOMAIN cache : k # obs.key /\ cache[k].expires <= now

\* C17: a request whose upstream call fails (a status that is not a
\* success, or a transport failure) ends with an error and changes nothing
\* in the cache: no entry is created, replaced or re-dated, neither by the
\* step that issued the call nor by the step that took the failure; and a
\* request for a key with no usable entry issues an upstream call of its
\* own, whatever failed before.
C17_FailureLeavesCache ==
    [][obs'.ep # "" =>
          /\ ~Resumed' => cache' = cache /\ written' = written
          /\ (Resumed' /\ Failure(obs'.u)) => obs'.resp.kind \in {"error", "crash"}
          /\ (Resumed' /\ obs'.resp.kind # "json") =>
                /\ cache' = cache
                /\ written' = written
                /\ ~Wrote'
          /\ (CacheCheck' /\ ~LiveTruthy(cache, obs'.key, now)) =>
                /\ obs'.call # NoCall
                /\ inflight' # inflight
      ]_vars

\* A player request whose upstream call answered 404 has ended with that
\* error and left alone the entry another request stored in the meantime.
C17_Witness ==
    /\ obs.ep = "player_stats"
    /\ Resumed
    /\ obs.u = HttpResponse(404, "Not Found")
    /\ obs.resp = HTTPException(404, "Not Found")
    /\ obs.key \in DOMAIN cache

\* The upstream call a player or economy request issues when its cache
\* check misses.
MissCall(ep, args) ==
    IF ep = "player_stats"
    THEN Call("/players/username/" \o args[1].s \o "/statistics",
              IF Truthy(args[2]) THEN JObj([k \in {"filter"} |-> args[2]]) ELSE JNull)
    ELSE Call(IF Truthy(args[1]) THEN "/economy/player/username/" \o PyStr(args[1])
              ELSE "/economy/baltop",
              JNull)

\* C18: cache keys separate distinct upstream requests: when a request is
\* answered from the cache, the entry was stored by a request whose upstream
\* call had the path and the query parameters this request would have used
\* on a miss.
C18_KeysSeparateCalls ==
    (obs.ep \in {"player_stats", "economy"} /\ Hit) =>
        written[obs.key].call = MissCall(obs.ep, obs.args)

\* C19: the TTL is fixed, not sliding: a cache check, hit or miss, and a
\* clock advance leave every entry's data and expiry as they were, so a hit
\* returns the value of the last write to its key and happens fewer than
\* 120 seconds after that write, however many hits came before.
C19_FixedTTL ==
    [][/\ (CacheCheck' \/ now' # now) => cache' = cache /\ written' = written
       /\ (CacheCheck' /\ Truthy(obs'.got)) =>
             /\ obs'.key \in DOMAIN written
             /\ obs'.got = written[obs'.key].data
             /\ obs'.resp = JsonResp(written[obs'.key].data)
             /\ now - written[obs'.key].at < CACHE_TTL
             /\ cache'[obs'.key].expires = written[obs'.key].at + CACHE_TTL
      ]_vars

\* A hit 60 seconds after the write of its entry, which still expires 120
\* seconds after that write.
C19_Witness ==
    /\ Hit
    /\ obs.key \in DOMAIN written
    /\ written[obs.key].at = 0
    /\ now = 60
    /\ cache[obs.key].expires = CACHE_TTL

====
